---------------------------- MODULE Spec2Model ----------------------------
(***************************************************************************)
(* kubeconf: validation, merge, rename and delete of a kubeconfig          *)
(* document (src/src/kubeconfig.rs, src/src/main.rs).                      *)
(*                                                                         *)
(* Strings are sequences of one-character strings, Option<T> is a          *)
(* sequence of length 0 (None) or 1 (Some), Vec<T> is a sequence.          *)
(***************************************************************************)
EXTENDS Integers, Sequences, FiniteSets, TLC

VARIABLES
    stored,   \* the document held by the kubeconfig file (args.config)
    before,   \* the file's document when the last invocation started
    cmd,      \* the arguments of the last invocation
    loaded,   \* what KubeConfig::from_file returned for the main file
    ret,      \* what the chosen operation returned (or that it panicked)
    out,      \* what the invocation printed to stdout
    other,    \* the document held by the file (or stdin) given to merge
    status    \* how the invocation ended: "ok", "panic" or "cancelled"

vars == <<stored, before, cmd, loaded, ret, out, other, status>>

(***************************************************************************)
(* Option, Vec and string helpers                                          *)
(***************************************************************************)
None == << >>
Some(x) == <<x>>
IsSome(o) == Len(o) = 1
Unwrap(o) == o[1]

\* Vec<T> of at most n elements of S
SeqsUpTo(S, n) == UNION {[1..k -> S] : k \in 0..n}

\* str::starts_with
starts_with(s, p) == Len(s) >= Len(p) /\ SubSeq(s, 1, Len(p)) = p

\* iter().any(|e| e.name == name)
any_name(v, name) == \E i \in 1..Len(v) : v[i].name = name

\* iter().position(|e| e.name == name): the first index, 0 for None
position(v, name) ==
    IF any_name(v, name)
    THEN CHOOSE i \in 1..Len(v) :
             /\ v[i].name = name
             /\ \A j \in 1..(i - 1) : v[j].name # name
    ELSE 0

Str_v1 == <<"v", "1">>
Str_v2 == <<"v", "2">>
Str_Config == <<"C", "o", "n", "f", "i", "g">>
Str_List == <<"L", "i", "s", "t">>
Str_http == <<"h", "t", "t", "p", ":", "/", "/">>
Str_https == <<"h", "t", "t", "p", "s", ":", "/", "/">>
Str_ftp == <<"f", "t", "p", ":", "/", "/">>

(***************************************************************************)
(* base64::engine::general_purpose::STANDARD.decode: the standard          *)
(* alphabet, canonical padding required, no non-zero trailing bits.        *)
(***************************************************************************)
B64Alphabet ==
    <<"A", "B", "C", "D", "E", "F", "G", "H", "I", "J", "K", "L", "M",
      "N", "O", "P", "Q", "R", "S", "T", "U", "V", "W", "X", "Y", "Z",
      "a", "b", "c", "d", "e", "f", "g", "h", "i", "j", "k", "l", "m",
      "n", "o", "p", "q", "r", "s", "t", "u", "v", "w", "x", "y", "z",
      "0", "1", "2", "3", "4", "5", "6", "7", "8", "9", "+", "/">>

B64IsSymbol(c) == \E i \in 1..Len(B64Alphabet) : B64Alphabet[i] = c
B64Value(c) == (CHOOSE i \in 1..Len(B64Alphabet) : B64Alphabet[i] = c) - 1

\* number of '=' characters at the end of s
RECURSIVE B64PadCount(_)
B64PadCount(s) ==
    IF Len(s) > 0 /\ s[Len(s)] = "="
    THEN 1 + B64PadCount(SubSeq(s, 1, Len(s) - 1))
    ELSE 0

\* decode(s).is_ok()
B64DecodeOk(s) ==
    LET pad == B64PadCount(s)
        n == Len(s) - pad
        r == n % 4
    IN  /\ \A i \in 1..n : B64IsSymbol(s[i])
        /\ r # 1
        /\ (r = 0 => pad = 0)
        /\ (r = 2 => pad = 2 /\ B64Value(s[n]) % 16 = 0)
        /\ (r = 3 => pad = 1 /\ B64Value(s[n]) % 4 = 0)

(***************************************************************************)
(* KubeConfig::validate (kubeconfig.rs 230-311).  An error is the          *)
(* ValidationError's message: the check that produced it and the values    *)
(* formatted into it.                                                      *)
(***************************************************************************)
Ok == [kind |-> "Ok", check |-> "", args |-> << >>]
ValidationError(check, args) ==
    [kind |-> "ValidationError", check |-> check, args |-> args]

RECURSIVE ValidateContextsUserFirst(_, _)
ValidateContextsUserFirst(D, i) ==
    IF i > Len(D.contexts) THEN Ok
    ELSE LET context == D.contexts[i] IN
         IF ~any_name(D.users, context.context.user)
         THEN ValidationError("context.user",
                              <<context.name, context.context.user>>)
         ELSE IF ~any_name(D.clusters, context.context.cluster)
         THEN ValidationError("context.cluster",
                              <<context.name, context.context.cluster>>)
         ELSE ValidateContextsUserFirst(D, i + 1)

\* for context in &self.contexts (256-270)
RECURSIVE ValidateContexts(_, _)
ValidateContexts(D, i) ==
    IF i > Len(D.contexts) THEN Ok
    ELSE LET context == D.contexts[i] IN
         IF ~any_name(D.clusters, context.context.cluster)
         THEN ValidationError("context.cluster",
                              <<context.name, context.context.cluster>>)
         ELSE IF ~any_name(D.users, context.context.user)
         THEN ValidationError("context.user",
                              <<context.name, context.context.user>>)
         ELSE ValidateContexts(D, i + 1)

\* for cluster in &self.clusters (273-290)
RECURSIVE ValidateClusters(_, _)
ValidateClusters(D, i) ==
    IF i > Len(D.clusters) THEN Ok
    ELSE LET cluster == D.clusters[i] IN
         IF /\ ~starts_with(cluster.cluster.server, Str_http)
            /\ ~starts_with(cluster.cluster.server, Str_https)
         THEN ValidationError("cluster.server",
                              <<cluster.name, cluster.cluster.server>>)
         ELSE IF /\ IsSome(cluster.cluster.certificate_authority_data)
                 /\ ~B64DecodeOk(Unwrap(cluster.cluster.certificate_authority_data))
         THEN ValidationError("cluster.certificate-authority-data",
                              <<cluster.name>>)
         ELSE ValidateClusters(D, i + 1)

\* for user in &self.users (293-308)
RECURSIVE ValidateUsers(_, _)
ValidateUsers(D, i) ==
    IF i > Len(D.users) THEN Ok
    ELSE LET user == D.users[i] IN
         IF /\ IsSome(user.user.client_certificate_data)
            /\ ~B64DecodeOk(Unwrap(user.user.client_certificate_data))
         THEN ValidationError("user.client-certificate-data", <<user.name>>)
         ELSE IF /\ IsSome(user.user.client_key_data)
                 /\ ~B64DecodeOk(Unwrap(user.user.client_key_data))
         THEN ValidationError("user.client-key-data", <<user.name>>)
         ELSE ValidateUsers(D, i + 1)

validateNoUserCheck(D) ==
    IF D.api_version # Str_v1
    THEN ValidationError("apiVersion", <<D.api_version>>)
    ELSE IF D.kind # Str_Config
    THEN ValidationError("kind", <<D.kind>>)
    ELSE IF /\ IsSome(D.current_context)
            /\ ~any_name(D.contexts, Unwrap(D.current_context))
    THEN ValidationError("current-context", <<Unwrap(D.current_context)>>)
    ELSE LET r1 == ValidateContexts(D, 1) IN
         IF r1 # Ok THEN r1
         ELSE ValidateClusters(D, 1)

validate(D) ==
    IF D.api_version # Str_v1
    THEN ValidationError("apiVersion", <<D.api_version>>)
    ELSE IF D.kind # Str_Config
    THEN ValidationError("kind", <<D.kind>>)
    ELSE IF /\ IsSome(D.current_context)
            /\ ~any_name(D.contexts, Unwrap(D.current_context))
    THEN ValidationError("current-context", <<Unwrap(D.current_context)>>)
    ELSE LET r1 == ValidateContexts(D, 1) IN
         IF r1 # Ok THEN r1
         ELSE LET r2 == ValidateClusters(D, 1) IN
              IF r2 # Ok THEN r2
              ELSE ValidateUsers(D, 1)

\* KubeConfig::from_file / from_yaml on a document that parses: the document
\* or the validation error
from_file(D) ==
    LET v == validate(D) IN
    IF v = Ok THEN [kind |-> "Ok", config |-> Some(D), error |-> Ok]
    ELSE [kind |-> "Err", config |-> None, error |-> v]

(***************************************************************************)
(* Documents                                                               *)
(***************************************************************************)
Cluster(server, ca) ==
    [server |-> server, certificate_authority_data |-> ca]
User(cert, key, token) ==
    [client_certificate_data |-> cert, client_key_data |-> key,
     token |-> token]
Context(cluster, user, namespace) ==
    [cluster |-> cluster, user |-> user, namespace |-> namespace]
NamedCluster(name, cluster) == [name |-> name, cluster |-> cluster]
NamedUser(name, user) == [name |-> name, user |-> user]
NamedContext(name, context) == [name |-> name, context |-> context]
NamedExtension(name, extension) == [name |-> name, extension |-> extension]
Preferences(colors, extensions) ==
    [colors |-> colors, extensions |-> extensions]
KubeConfig(api, kind, prefs, clusters, users, contexts, current, exts) ==
    [api_version |-> api, kind |-> kind, preferences |-> prefs,
     clusters |-> clusters, users |-> users, contexts |-> contexts,
     current_context |-> current, extensions |-> exts]

\* a document with nothing but the two literals
EmptyDocument ==
    KubeConfig(Str_v1, Str_Config, None, << >>, << >>, << >>, None, << >>)

\* the largest number of cluster, user and context entries of a document
\* the validator is run on
MaxEntries == 3

Names == {<<"a">>, <<"b", "0">>}

\* "QQ==" decodes, "QQ" lacks its padding, "QR==" has non-zero trailing bits,
\* "Q-==" holds a symbol of the URL-safe alphabet, "" decodes to nothing
B64_QQpp == <<"Q", "Q", "=", "=">>
B64_QQ == <<"Q", "Q">>
B64_QUIp == <<"Q", "U", "I", "=">>
B64_QRpp == <<"Q", "R", "=", "=">>
B64_Qdpp == <<"Q", "-", "=", "=">>
B64_empty == << >>

ValidateClusterValues ==
    {Cluster(Str_https \o <<"x">>, None),
     Cluster(Str_http \o <<"x">>, Some(B64_QQpp)),
     Cluster(Str_ftp \o <<"x">>, None),
     Cluster(Str_https, Some(B64_QQ)),
     Cluster(<<"h", "t", "t", "p", "s", ":", "/">>, Some(B64_QRpp))}
ValidateUserValues ==
    {User(Some(B64_QUIp), Some(B64_empty), None),
     User(Some(B64_QRpp), None, None),
     User(None, Some(B64_Qdpp), None),
     User(Some(B64_QQ), Some(B64_QRpp), None)}
ValidateContextValues ==
    {Context(c, u, None) : c \in Names, u \in Names}

ValidateClusterEntries ==
    {NamedCluster(n, c) : n \in Names, c \in ValidateClusterValues}
ValidateUserEntries ==
    {NamedUser(n, u) : n \in Names, u \in ValidateUserValues}
ValidateContextEntries ==
    {NamedContext(n, c) : n \in Names, c \in ValidateContextValues}

\* the numbers of cluster, user and context entries of a document with at
\* most MaxEntries entries in all
ValidateShapes ==
    {u \in (0..MaxEntries) \X (0..MaxEntries) \X (0..MaxEntries) :
        u[1] + u[2] + u[3] <= MaxEntries}

(***************************************************************************)
(* One invocation of the program (main, main.rs 629-773)                   *)
(***************************************************************************)
NotLoaded == [kind |-> "None", config |-> None, error |-> Ok]
NoRet == [kind |-> "None", config |-> None, reason |-> ""]
Returned(D) == [kind |-> "Returned", config |-> Some(D), reason |-> ""]
Panicked(reason) == [kind |-> "Panicked", config |-> None, reason |-> reason]
NoOut == [kind |-> "None", doc |-> None, lines |-> << >>]

\* Commands::List (704-750): one line per context; with --long the
\* namespace too, "default" when the context has none
ListLines(D, long) ==
    [i \in 1..Len(D.contexts) |->
        IF long
        THEN <<D.contexts[i].name,
               IF IsSome(D.contexts[i].context.namespace)
               THEN Unwrap(D.contexts[i].context.namespace)
               ELSE <<"d", "e", "f", "a", "u", "l", "t">> >>
        ELSE <<D.contexts[i].name>>]

ListRun(long) ==
    \E l \in {from_file(stored)} :
        /\ before' = stored
        /\ cmd' = [op |-> "list", long |-> long]
        /\ loaded' = l
        /\ ret' = NoRet
        /\ stored' = stored
        /\ other' = other
        /\ status' = IF l.kind = "Ok" THEN "ok" ELSE "panic"
        /\ out' = IF l.kind = "Ok"
                  THEN [kind |-> "list", doc |-> None,
                        lines |-> ListLines(Unwrap(l.config), long)]
                  ELSE NoOut

(***************************************************************************)
(* merge_kubeconfigs (main.rs 135-290)                                     *)
(***************************************************************************)
\* the loop that each of the five name-keyed merges runs: an entry of other
\* is pushed when no entry of merged has its name, and otherwise replaces
\* the first entry of that name when force is set
RECURSIVE MergeLoop(_, _, _, _)
MergeLoop(merged, others, i, force) ==
    IF i > Len(others) THEN merged
    ELSE LET o == others[i]
             existing_index == position(merged, o.name)
         IN  MergeLoop(IF existing_index = 0 THEN Append(merged, o)
                       ELSE IF force
                            THEN [merged EXCEPT ![existing_index] = o]
                            ELSE merged,
                       others, i + 1, force)

\* the loop with one of its three decisions changed
RECURSIVE MergeLoopChanged(_, _, _, _, _)
MergeLoopChanged(merged, others, i, force, change) ==
    IF i > Len(others) THEN merged
    ELSE LET o == others[i]
             existing_index == position(merged, o.name)
         IN  MergeLoopChanged(
                 IF existing_index = 0
                 THEN IF change = "push front" THEN <<o>> \o merged
                      ELSE Append(merged, o)
                 ELSE IF force \/ change = "always replace"
                      THEN [merged EXCEPT ![existing_index] = o]
                      ELSE merged,
                 others, i + 1, force, change)

merge_clusters_always_replace(main_clusters, other_clusters, force) ==
    MergeLoopChanged(main_clusters, other_clusters, 1, force, "always replace")
merge_users_push_front(main_users, other_users, force) ==
    MergeLoopChanged(main_users, other_users, 1, force, "push front")

merge_preference_extensions(main_extensions, other_extensions, force) ==
    MergeLoop(main_extensions, other_extensions, 1, force)
merge_clusters_keep_main(main_clusters, other_clusters, force) == main_clusters
merge_clusters_append_all(main_clusters, other_clusters, force) == main_clusters \o other_clusters
merge_clusters(main_clusters, other_clusters, force) ==
    MergeLoop(main_clusters, other_clusters, 1, force)
merge_users(main_users, other_users, force) ==
    MergeLoop(main_users, other_users, 1, force)
merge_contexts(main_contexts, other_contexts, force) ==
    MergeLoop(main_contexts, other_contexts, 1, force)
merge_extensions(main_extensions, other_extensions, force) ==
    MergeLoop(main_extensions, other_extensions, 1, force)

merge_colors_keep_main(main_colors, other_colors, force) ==
    IF IsSome(main_colors) THEN main_colors ELSE other_colors

\* Merge colors (152-170)
merge_colors(main_colors, other_colors, force) ==
    IF IsSome(main_colors)
    THEN IF force THEN other_colors ELSE main_colors
    ELSE other_colors

\* Merge preferences (143-205)
merge_preferences(main_prefs, other_prefs, force, include_preferences) ==
    IF ~include_preferences THEN main_prefs
    ELSE IF ~IsSome(other_prefs) THEN main_prefs
    ELSE IF ~IsSome(main_prefs) THEN other_prefs
    ELSE LET mp == Unwrap(main_prefs)
             op == Unwrap(other_prefs)
         IN  Some(Preferences(
                 merge_colors(mp.colors, op.colors, force),
                 merge_preference_extensions(mp.extensions, op.extensions,
                                             force)))

merge_kubeconfigs_current_too(main, o, force, include_preferences) ==
    [main EXCEPT
        !.preferences = merge_preferences(main.preferences, o.preferences,
                                          force, include_preferences),
        !.clusters = merge_clusters(main.clusters, o.clusters, force),
        !.users = merge_users(main.users, o.users, force),
        !.contexts = merge_contexts(main.contexts, o.contexts, force),
        !.current_context = IF force /\ IsSome(o.current_context)
                            THEN o.current_context
                            ELSE main.current_context,
        !.extensions = merge_extensions(main.extensions, o.extensions, force)]

merge_kubeconfigs(main, o, force, include_preferences) ==
    [main EXCEPT
        !.preferences = merge_preferences(main.preferences, o.preferences,
                                          force, include_preferences),
        !.clusters = merge_clusters(main.clusters, o.clusters, force),
        !.users = merge_users(main.users, o.users, force),
        !.contexts = merge_contexts(main.contexts, o.contexts, force),
        !.extensions = merge_extensions(main.extensions, o.extensions, force)]

write_stored_always(file, kubeconfig, dry_run) == kubeconfig

\* write_kubeconfig (607-627): the document goes to stdout under --dry-run
\* and replaces the file's content otherwise
write_stored(file, kubeconfig, dry_run) ==
    IF dry_run THEN file ELSE kubeconfig
write_out(kubeconfig, dry_run) ==
    IF dry_run
    THEN [kind |-> "document", doc |-> Some(kubeconfig), lines |-> << >>]
    ELSE NoOut

\* Commands::Merge (645-703) with the other file holding other_file
MergeRunOn(other_file, force, include_preferences, dry_run) ==
    \E l \in {from_file(stored)}, o \in {from_file(other_file)} :
    \E r \in {IF l.kind # "Ok" THEN Panicked("main kubeconfig")
               ELSE IF o.kind # "Ok" THEN Panicked("other kubeconfig")
               ELSE Returned(merge_kubeconfigs(Unwrap(l.config),
                                               Unwrap(o.config), force,
                                               include_preferences))} :
        /\ before' = stored
        /\ cmd' = [op |-> "merge", force |-> force,
                   include_preferences |-> include_preferences,
                   dry_run |-> dry_run]
        /\ loaded' = l
        /\ other' = other_file
        /\ ret' = r
        /\ status' = IF r.kind = "Returned" THEN "ok" ELSE "panic"
        /\ stored' = IF r.kind = "Returned"
                     THEN write_stored(stored, Unwrap(r.config), dry_run)
                     ELSE stored
        /\ out' = IF r.kind = "Returned"
                  THEN write_out(Unwrap(r.config), dry_run)
                  ELSE NoOut

MergeRun(force, include_preferences, dry_run) ==
    MergeRunOn(other, force, include_preferences, dry_run)

(***************************************************************************)
(* The documents merge is run on.  Every entry carries a payload naming    *)
(* the document it comes from ("m" main, "o" other) and its index there,   *)
(* so that the origin of every entry of a result can be told.  One         *)
(* collection at a time (the focus) ranges over every sequence of at most  *)
(* MaxLen names; the other collections hold a fixed background.            *)
(***************************************************************************)
MaxLen == 2

Name_a == <<"a">>
Name_b0 == <<"b", "0">>
Name_c1 == <<"c", "1">>
Digit(i) == <<"0", "1", "2", "3", "4", "5", "6", "7", "8", "9">>[i + 1]
Tag(g, i) == <<g, Digit(i)>>

ClustersOf(ns, g) ==
    [i \in 1..Len(ns) |->
        NamedCluster(ns[i], Cluster(Str_https \o Tag(g, i), None))]
UsersOf(ns, g) ==
    [i \in 1..Len(ns) |-> NamedUser(ns[i], User(None, None, Some(Tag(g, i))))]
\* cs[i] = <<name, the name of the cluster and of the user>>
ContextsOf(cs, g) ==
    [i \in 1..Len(cs) |->
        NamedContext(cs[i][1], Context(cs[i][2], cs[i][2], Some(Tag(g, i))))]
ExtensionsOf(ns, g) ==
    [i \in 1..Len(ns) |-> NamedExtension(ns[i], Tag(g, i))]
\* p = None or Some(<<colors, names of the extensions>>)
PreferencesOf(p, g) ==
    IF p = None THEN None
    ELSE Some(Preferences(Unwrap(p)[1], ExtensionsOf(Unwrap(p)[2], g)))

NameSeqs == SeqsUpTo(Names, MaxLen)
ContextSeqs == SeqsUpTo(Names \X Names, MaxLen)
ColorsValues == {None, Some(TRUE), Some(FALSE)}
PreferencesChoices ==
    {None} \cup {Some(<<c, ns>>) : c \in ColorsValues, ns \in NameSeqs}

MergeFoci == {"clusters", "users", "contexts", "extensions", "preferences"}

MainClusterNames(f) ==
    IF f = "clusters" THEN NameSeqs ELSE {<<Name_a, Name_b0>>}
OtherClusterNames(f) ==
    IF f = "clusters" THEN NameSeqs ELSE {<<Name_b0, Name_c1, Name_a>>}
MainUserNames(f) ==
    IF f = "users" THEN NameSeqs ELSE {<<Name_a, Name_b0>>}
OtherUserNames(f) ==
    IF f = "users" THEN NameSeqs ELSE {<<Name_b0, Name_c1, Name_a>>}
MainContexts(f) ==
    IF f = "contexts" THEN ContextSeqs
    ELSE IF f \in {"clusters", "users"} THEN {<< >>}
    ELSE {<<<<Name_a, Name_a>>>>}
OtherContexts(f) ==
    IF f = "contexts" THEN ContextSeqs
    ELSE IF f \in {"clusters", "users"} THEN {<< >>}
    ELSE {<<<<Name_a, Name_b0>>, <<Name_b0, Name_b0>>>>}
MainExtensionNames(f) ==
    IF f = "extensions" THEN NameSeqs ELSE {<<Name_a>>}
OtherExtensionNames(f) ==
    IF f = "extensions" THEN NameSeqs ELSE {<<Name_b0, Name_a>>}
MainPreferences(f) ==
    IF f = "preferences" THEN PreferencesChoices
    ELSE {Some(<<Some(TRUE), <<Name_a>>>>)}
OtherPreferences(f) ==
    IF f = "preferences" THEN PreferencesChoices
    ELSE {Some(<<Some(FALSE), <<Name_a, Name_b0>>>>)}
\* current-context: absent, or the name of the context at index k
CurrentChoices(cs, k) ==
    {None} \cup (IF k >= 1 /\ Len(cs) >= k THEN {Some(cs[k][1])} ELSE {})

\* the documents without entries: no preferences, or preferences that hold
\* neither a colors value nor an extension
EmptyDocuments ==
    <<EmptyDocument,
      [EmptyDocument EXCEPT !.preferences = Some(Preferences(None, << >>))]>>

InitMerge ==
    /\ \E f \in MergeFoci, e \in 0..Len(EmptyDocuments) :
       \E mc \in MainClusterNames(f), mu \in MainUserNames(f),
          mx \in MainContexts(f), me \in MainExtensionNames(f),
          mp \in MainPreferences(f),
          oc \in IF e = 0 THEN OtherClusterNames(f) ELSE {<< >>},
          ou \in IF e = 0 THEN OtherUserNames(f) ELSE {<< >>},
          ox \in IF e = 0 THEN OtherContexts(f) ELSE {<< >>},
          oe \in IF e = 0 THEN OtherExtensionNames(f) ELSE {<< >>},
          op \in IF e = 0 THEN OtherPreferences(f) ELSE {None} :
       \E mcur \in CurrentChoices(mx, 1), ocur \in CurrentChoices(ox, Len(ox)) :
          /\ stored = KubeConfig(Str_v1, Str_Config, PreferencesOf(mp, "m"),
                                 ClustersOf(mc, "m"), UsersOf(mu, "m"),
                                 ContextsOf(mx, "m"), mcur,
                                 ExtensionsOf(me, "m"))
          /\ other = IF e = 0
                     THEN KubeConfig(Str_v1, Str_Config, PreferencesOf(op, "o"),
                                     ClustersOf(oc, "o"), UsersOf(ou, "o"),
                                     ContextsOf(ox, "o"), ocur,
                                     ExtensionsOf(oe, "o"))
                     ELSE EmptyDocuments[e]
    /\ before = stored
    /\ cmd = [op |-> "none"]
    /\ loaded = NotLoaded
    /\ ret = NoRet
    /\ out = NoOut
    /\ status = "none"

\* one invocation of merge on the initial files
NextMerge ==
    /\ cmd.op = "none"
    /\ \E force \in BOOLEAN, include_preferences \in BOOLEAN, dry_run \in BOOLEAN :
          MergeRun(force, include_preferences, dry_run)

SpecMerge == InitMerge /\ [][NextMerge]_vars

(***************************************************************************)
(* rename_kubeconfig_values (main.rs 292-534)                              *)
(***************************************************************************)
\* str::split("::"): the pieces between the non-overlapping occurrences of
\* "::", found from the left
RECURSIVE SplitAt(_, _, _)
SplitAt(s, i, piece) ==
    IF i > Len(s) THEN <<piece>>
    ELSE IF i + 1 <= Len(s) /\ s[i] = ":" /\ s[i + 1] = ":"
    THEN <<piece>> \o SplitAt(s, i + 2, << >>)
    ELSE SplitAt(s, i + 1, Append(piece, s[i]))
split(s) == SplitAt(s, 1, << >>)

LowerAlnum ==
    {"a", "b", "c", "d", "e", "f", "g", "h", "i", "j", "k", "l", "m",
     "n", "o", "p", "q", "r", "s", "t", "u", "v", "w", "x", "y", "z",
     "0", "1", "2", "3", "4", "5", "6", "7", "8", "9"}

\* the {0,251} of the regex
RegexMiddleMax == 251

\* Regex ^([a-z0-9]{1})([a-z0-9\-\.]{0,251})([a-z0-9]{1})$ finds a match
regex_is_match(s) ==
    /\ Len(s) >= 2
    /\ Len(s) - 2 <= RegexMiddleMax
    /\ s[1] \in LowerAlnum
    /\ s[Len(s)] \in LowerAlnum
    /\ \A i \in 2..(Len(s) - 1) : s[i] \in LowerAlnum \cup {"-", "."}

\* the checks every stage makes before it renames (312-348, 382-418,
\* 458-494): "" when it goes on, the panic otherwise
stage_check(entries, token, force) ==
    LET splitted == split(token) IN
    IF Len(splitted) # 2 THEN "syntax"
    ELSE IF ~regex_is_match(splitted[2]) THEN "invalid name"
    ELSE IF any_name(entries, splitted[2]) /\ ~force THEN "refusing to rename"
    ELSE ""

\* for x in entries: the name previous_value becomes new_value
rename_entries(entries, previous_value, new_value) ==
    [i \in 1..Len(entries) |->
        IF entries[i].name = previous_value
        THEN [entries[i] EXCEPT !.name = new_value]
        ELSE entries[i]]

rename_context_and_cluster(kubeconfig, previous_value, new_value) ==
    [kubeconfig EXCEPT
        !.contexts = rename_entries(kubeconfig.contexts, previous_value,
                                    new_value),
        !.clusters = rename_entries(kubeconfig.clusters, previous_value,
                                    new_value),
        !.current_context =
            IF kubeconfig.current_context = Some(previous_value)
            THEN Some(new_value)
            ELSE kubeconfig.current_context]

\* if let Some(context) = context (311-379), past its checks
rename_context(kubeconfig, previous_value, new_value) ==
    [kubeconfig EXCEPT
        !.contexts = rename_entries(kubeconfig.contexts, previous_value,
                                    new_value),
        !.current_context =
            IF kubeconfig.current_context = Some(previous_value)
            THEN Some(new_value)
            ELSE kubeconfig.current_context]

rename_cluster_no_cascade(kubeconfig, previous_value, new_value) ==
    [kubeconfig EXCEPT
        !.clusters = rename_entries(kubeconfig.clusters, previous_value,
                                    new_value)]

\* if let Some(cluster) = cluster (381-455), past its checks
rename_cluster(kubeconfig, previous_value, new_value) ==
    [kubeconfig EXCEPT
        !.clusters = rename_entries(kubeconfig.clusters, previous_value,
                                    new_value),
        !.contexts =
            [i \in 1..Len(kubeconfig.contexts) |->
                IF kubeconfig.contexts[i].context.cluster = previous_value
                THEN [kubeconfig.contexts[i] EXCEPT
                         !.context.cluster = new_value]
                ELSE kubeconfig.contexts[i]]]

\* if let Some(user) = user (457-531), past its checks
rename_user(kubeconfig, previous_value, new_value) ==
    [kubeconfig EXCEPT
        !.users = rename_entries(kubeconfig.users, previous_value, new_value),
        !.contexts =
            [i \in 1..Len(kubeconfig.contexts) |->
                IF kubeconfig.contexts[i].context.user = previous_value
                THEN [kubeconfig.contexts[i] EXCEPT !.context.user = new_value]
                ELSE kubeconfig.contexts[i]]]

context_stage_unchecked(r, context, force) ==
    IF r.kind # "Returned" \/ ~IsSome(context) THEN r
    ELSE LET k == Unwrap(r.config)
             splitted == split(Unwrap(context))
         IN  IF Len(splitted) # 2 THEN Panicked("syntax")
             ELSE IF ~regex_is_match(splitted[2]) THEN Panicked("invalid name")
             ELSE Returned(rename_context(k, splitted[1], splitted[2]))

\* the three stages; r is the document so far, or the panic that ended the
\* invocation
context_stage(r, context, force) ==
    IF r.kind # "Returned" \/ ~IsSome(context) THEN r
    ELSE LET k == Unwrap(r.config)
             c == stage_check(k.contexts, Unwrap(context), force)
             splitted == split(Unwrap(context))
         IN  IF c # "" THEN Panicked(c)
             ELSE Returned(rename_context(k, splitted[1], splitted[2]))
cluster_stage(r, cluster, force) ==
    IF r.kind # "Returned" \/ ~IsSome(cluster) THEN r
    ELSE LET k == Unwrap(r.config)
             c == stage_check(k.clusters, Unwrap(cluster), force)
             splitted == split(Unwrap(cluster))
         IN  IF c # "" THEN Panicked(c)
             ELSE Returned(rename_cluster(k, splitted[1], splitted[2]))
user_stage(r, user, force) ==
    IF r.kind # "Returned" \/ ~IsSome(user) THEN r
    ELSE LET k == Unwrap(r.config)
             c == stage_check(k.users, Unwrap(user), force)
             splitted == split(Unwrap(user))
         IN  IF c # "" THEN Panicked(c)
             ELSE Returned(rename_user(k, splitted[1], splitted[2]))

effective_option_first(option, all) == IF IsSome(option) THEN option ELSE all

\* if let Some(all) = all (302-309)
effective(option, all) == IF IsSome(all) THEN all ELSE option

rename_kubeconfig_values(kubeconfig, context, cluster, user, all, force) ==
    user_stage(
        cluster_stage(
            context_stage(Returned(kubeconfig), effective(context, all), force),
            effective(cluster, all), force),
        effective(user, all), force)

\* Commands::Rename (751-763)
RenameRun(context, cluster, user, all, dry_run, force) ==
    \E l \in {from_file(stored)} :
    \E r \in {IF l.kind # "Ok" THEN Panicked("main kubeconfig")
               ELSE rename_kubeconfig_values(Unwrap(l.config), context,
                                             cluster, user, all, force)} :
        /\ before' = stored
        /\ cmd' = [op |-> "rename", context |-> context, cluster |-> cluster,
                   user |-> user, all |-> all, dry_run |-> dry_run,
                   force |-> force]
        /\ loaded' = l
        /\ other' = other
        /\ ret' = r
        /\ status' = IF r.kind = "Returned" THEN "ok" ELSE "panic"
        /\ stored' = IF r.kind = "Returned"
                     THEN write_stored(stored, Unwrap(r.config), dry_run)
                     ELSE stored
        /\ out' = IF r.kind = "Returned"
                  THEN write_out(Unwrap(r.config), dry_run)
                  ELSE NoOut

(***************************************************************************)
(* The documents and tokens rename is run on: every valid document of at   *)
(* most MaxRenameEntries entries with names "a" and "b0"; at most MaxGiven *)
(* of the four options given.                                              *)
(***************************************************************************)
MaxRenameEntries == 4
MaxGiven == 1

Sep == <<":", ":">>
RenameTokens ==
    {Name_a \o Sep \o Name_b0,
     Name_b0 \o Sep \o Name_c1,
     Name_b0 \o Sep \o Name_a,
     Name_a \o Sep \o <<"-", "b">>,
     Name_a \o Sep \o Name_b0 \o Sep \o Name_c1}
TokenOptions == {None} \cup {Some(t) : t \in RenameTokens}
Given(o) == IF IsSome(o) THEN 1 ELSE 0

RenameShapes ==
    {u \in (0..MaxRenameEntries) \X (0..MaxRenameEntries)
              \X (0..MaxRenameEntries) :
        u[1] + u[2] + u[3] <= MaxRenameEntries}

\* cx[i] = <<name, cluster, user>>
ContextsOf3(cx, g) ==
    [i \in 1..Len(cx) |->
        NamedContext(cx[i][1], Context(cx[i][2], cx[i][3], Some(Tag(g, i))))]

RenameInit(shapes) ==
    /\ \E t \in shapes :
       \E cl \in [1..t[1] -> Names], us \in [1..t[2] -> Names],
          cx \in [1..t[3] -> Names \X Names \X Names] :
       \E cur \in CurrentChoices(cx, 1) \cup CurrentChoices(cx, 2) :
          /\ \A i \in 1..Len(cx) :
                /\ \E j \in 1..Len(cl) : cl[j] = cx[i][2]
                /\ \E j \in 1..Len(us) : us[j] = cx[i][3]
          /\ stored = KubeConfig(Str_v1, Str_Config, None,
                                 ClustersOf(cl, "m"), UsersOf(us, "m"),
                                 ContextsOf3(cx, "m"), cur, << >>)
    /\ other = EmptyDocument
    /\ before = stored
    /\ cmd = [op |-> "none"]
    /\ loaded = NotLoaded
    /\ ret = NoRet
    /\ out = NoOut
    /\ status = "none"

InitRename == RenameInit(RenameShapes)

\* one invocation of rename on the initial file
NextRename ==
    /\ cmd.op = "none"
    /\ \E context \in TokenOptions, cluster \in TokenOptions,
          user \in TokenOptions, all \in TokenOptions,
          dry_run \in BOOLEAN, force \in BOOLEAN :
          /\ Given(context) + Given(cluster) + Given(user) + Given(all)
                <= MaxGiven
          /\ RenameRun(context, cluster, user, all, dry_run, force)

SpecRename == InitRename /\ [][NextRename]_vars

\* the most of --context, --cluster and --user given next to --all, and the
\* most entries of the documents --all is run on
MaxBesideAll == 1
MaxAllEntries == 3

RenameAllShapes ==
    {u \in (0..MaxAllEntries) \X (0..MaxAllEntries) \X (0..MaxAllEntries) :
        u[1] + u[2] + u[3] <= MaxAllEntries}

InitRenameAll == RenameInit(RenameAllShapes)

\* one invocation of rename with --all, and other options beside it
NextRenameAll ==
    /\ cmd.op = "none"
    /\ \E context \in TokenOptions, cluster \in TokenOptions,
          user \in TokenOptions, all \in TokenOptions \ {None},
          dry_run \in BOOLEAN, force \in BOOLEAN :
          /\ Given(context) + Given(cluster) + Given(user) <= MaxBesideAll
          /\ RenameRun(context, cluster, user, all, dry_run, force)

SpecRenameAll == InitRenameAll /\ [][NextRenameAll]_vars

(***************************************************************************)
(* delete_context (main.rs 536-605)                                        *)
(***************************************************************************)
\* the first loop (543-553): the contexts that stay, and the cluster and
\* user of every context that goes
new_contexts(kubeconfig, context) ==
    LET stays(c) == c.name # context IN SelectSeq(kubeconfig.contexts, stays)
matching_contexts(kubeconfig, context) ==
    LET goes(c) == c.name = context IN SelectSeq(kubeconfig.contexts, goes)
cluster_names_to_delete(kubeconfig, context) ==
    LET m == matching_contexts(kubeconfig, context)
    IN  [i \in 1..Len(m) |-> m[i].context.cluster]
user_names_to_delete(kubeconfig, context) ==
    LET m == matching_contexts(kubeconfig, context)
    IN  [i \in 1..Len(m) |-> m[i].context.user]

\* names.iter().find(|c| **c == name).is_none()
find_is_none(names, name) == \A i \in 1..Len(names) : names[i] # name

new_clusters_unless_shared(kubeconfig, context) ==
    LET names == cluster_names_to_delete(kubeconfig, context)
        rest == new_contexts(kubeconfig, context)
        stays(c) == \/ find_is_none(names, c.name)
                    \/ \E i \in 1..Len(rest) : rest[i].context.cluster = c.name
    IN  SelectSeq(kubeconfig.clusters, stays)

\* 559-569 and 571-581
new_clusters(kubeconfig, context) ==
    LET names == cluster_names_to_delete(kubeconfig, context)
        stays(c) == find_is_none(names, c.name)
    IN  SelectSeq(kubeconfig.clusters, stays)
new_users_by_cluster_names(kubeconfig, context) ==
    LET names == cluster_names_to_delete(kubeconfig, context)
        stays(u) == find_is_none(names, u.name)
    IN  SelectSeq(kubeconfig.users, stays)
new_users(kubeconfig, context) ==
    LET names == user_names_to_delete(kubeconfig, context)
        stays(u) == find_is_none(names, u.name)
    IN  SelectSeq(kubeconfig.users, stays)

delete_entries_keep_current(kubeconfig, context) ==
    [kubeconfig EXCEPT
        !.contexts = new_contexts(kubeconfig, context),
        !.clusters = new_clusters(kubeconfig, context),
        !.users = new_users(kubeconfig, context)]

\* the document at line 582, before the confirmation
delete_entries(kubeconfig, context) ==
    [kubeconfig EXCEPT
        !.contexts = new_contexts(kubeconfig, context),
        !.current_context =
            IF kubeconfig.current_context = Some(context) THEN None
            ELSE kubeconfig.current_context,
        !.clusters = new_clusters(kubeconfig, context),
        !.users = new_users(kubeconfig, context)]

\* str::trim and str::to_lowercase on the characters an answer is made of
Whitespace == {" ", "\t", "\n", "\r"}
RECURSIVE trim_start(_)
trim_start(s) ==
    IF Len(s) > 0 /\ s[1] \in Whitespace THEN trim_start(Tail(s)) ELSE s
RECURSIVE trim_end(_)
trim_end(s) ==
    IF Len(s) > 0 /\ s[Len(s)] \in Whitespace
    THEN trim_end(SubSeq(s, 1, Len(s) - 1))
    ELSE s
trim(s) == trim_end(trim_start(s))
to_lowercase(s) ==
    [i \in 1..Len(s) |->
        IF s[i] = "Y" THEN "y"
        ELSE IF s[i] = "N" THEN "n"
        ELSE IF s[i] = "E" THEN "e"
        ELSE IF s[i] = "S" THEN "s"
        ELSE s[i]]

\* what stdin().read_line gives: the line with its newline, nothing at end
\* of input, or an error
ReadOk(line) == [kind |-> "Ok", line |-> line]
ReadErr == [kind |-> "Err", line |-> << >>]

Exited(reason) == [kind |-> "Exited", config |-> None, reason |-> reason]

\* the line that tells how many contexts, clusters and users go (585-590)
count_line(kubeconfig, new_kubeconfig) ==
    <<<<Digit(Len(kubeconfig.contexts) - Len(new_kubeconfig.contexts))>>,
      <<Digit(Len(kubeconfig.clusters) - Len(new_kubeconfig.clusters))>>,
      <<Digit(Len(kubeconfig.users) - Len(new_kubeconfig.users))>>>>
Line_cancelled == <<<<"c", "a", "n", "c", "e", "l", "l", "e", "d">>>>

confirmation_any_answer(new_kubeconfig, yes, read) ==
    IF yes THEN Returned(new_kubeconfig)
    ELSE IF read.kind = "Err" THEN Panicked("User input broken")
    ELSE Returned(new_kubeconfig)

\* if !yes (583-602): Returned, exit(1) or the panic of expect
confirmation(new_kubeconfig, yes, read) ==
    IF yes THEN Returned(new_kubeconfig)
    ELSE IF read.kind = "Err" THEN Panicked("User input broken")
    ELSE IF to_lowercase(trim(read.line)) # <<"y">> THEN Exited("cancelled")
    ELSE Returned(new_kubeconfig)

delete_context(kubeconfig, context, yes, read) ==
    confirmation(delete_entries(kubeconfig, context), yes, read)

\* what delete_context prints
delete_out(kubeconfig, context, yes, r) ==
    IF yes THEN NoOut
    ELSE [kind |-> "prompt", doc |-> None,
          lines |-> <<count_line(kubeconfig, delete_entries(kubeconfig, context))>>
                    \o (IF r.kind = "Exited" THEN <<Line_cancelled>> ELSE << >>)]

\* Commands::Delete (764-772)
DeleteRun(context, dry_run, yes, read) ==
    \E l \in {from_file(stored)} :
    \E r \in {IF l.kind # "Ok" THEN Panicked("main kubeconfig")
               ELSE delete_context(Unwrap(l.config), context, dry_run \/ yes,
                                   read)} :
        /\ before' = stored
        /\ cmd' = [op |-> "delete", context |-> context, dry_run |-> dry_run,
                   yes |-> yes, read |-> read]
        /\ loaded' = l
        /\ other' = other
        /\ ret' = r
        /\ status' = IF r.kind = "Returned" THEN "ok"
                     ELSE IF r.kind = "Exited" THEN "cancelled"
                     ELSE "panic"
        /\ stored' = IF r.kind = "Returned"
                     THEN write_stored(stored, Unwrap(r.config), dry_run)
                     ELSE stored
        /\ out' = IF l.kind # "Ok" THEN NoOut
                  ELSE IF r.kind = "Returned" /\ dry_run
                  THEN write_out(Unwrap(r.config), dry_run)
                  ELSE delete_out(Unwrap(l.config), context, dry_run \/ yes, r)

(***************************************************************************)
(* The documents and arguments delete is run on: every valid document of   *)
(* at most MaxDeleteEntries entries, and of two clusters, two users and    *)
(* two contexts, with names "a" and "b0".                                  *)
(***************************************************************************)
MaxDeleteEntries == 5

DeleteShapes ==
    {u \in (0..MaxDeleteEntries) \X (0..MaxDeleteEntries)
              \X (0..MaxDeleteEntries) :
        u[1] + u[2] + u[3] <= MaxDeleteEntries} \cup {<<2, 2, 2>>}

DeleteNames == {Name_a, Name_b0, Name_c1}
ReadResults ==
    {ReadOk(<<"y", "\n">>), ReadOk(<<" ", "Y", " ", "\n">>),
     ReadOk(<<"n", "\n">>), ReadOk(<<"y", "e", "s", "\n">>),
     ReadOk(<<"\n">>), ReadOk(<< >>), ReadErr}

InitDelete == RenameInit(DeleteShapes)

\* one invocation of delete on the initial file
NextDelete ==
    /\ cmd.op = "none"
    /\ \E context \in DeleteNames, dry_run \in BOOLEAN, yes \in BOOLEAN,
          read \in ReadResults :
          DeleteRun(context, dry_run, yes, read)

SpecDelete == InitDelete /\ [][NextDelete]_vars

(***************************************************************************)
(* One invocation of merge, rename or delete on any file: documents of at  *)
(* most MaxRunEntries entries, and those of one cluster, one user and one  *)
(* context, valid or not.                                                  *)
(***************************************************************************)
MaxRunEntries == 2

RunShapes ==
    {u \in (0..MaxRunEntries) \X (0..MaxRunEntries) \X (0..MaxRunEntries) :
        u[1] + u[2] + u[3] <= MaxRunEntries} \cup {<<1, 1, 1>>}

\* the other file of a merge: without entries, with valid entries, with a
\* context whose cluster and user are missing
RunOthers ==
    {EmptyDocument,
     KubeConfig(Str_v1, Str_Config, Some(Preferences(Some(TRUE), << >>)),
                ClustersOf(<<Name_b0, Name_c1>>, "o"), UsersOf(<<Name_c1>>, "o"),
                ContextsOf(<<<<Name_c1, Name_c1>>>>, "o"), Some(Name_c1), << >>),
     KubeConfig(Str_v1, Str_Config, None, << >>, << >>,
                ContextsOf(<<<<Name_a, Name_a>>>>, "o"), None, << >>)}

InitRun ==
    /\ \E t \in RunShapes :
       \E cl \in [1..t[1] -> Names], us \in [1..t[2] -> Names],
          cx \in [1..t[3] -> Names \X Names],
          cur \in {None} \cup {Some(n) : n \in Names},
          api \in {Str_v1, Str_v2} :
          stored = KubeConfig(api, Str_Config, None, ClustersOf(cl, "m"),
                              UsersOf(us, "m"), ContextsOf(cx, "m"), cur, << >>)
    /\ other \in RunOthers
    /\ before = stored
    /\ cmd = [op |-> "none"]
    /\ loaded = NotLoaded
    /\ ret = NoRet
    /\ out = NoOut
    /\ status = "none"

RunMerge ==
    /\ cmd.op = "none"
    /\ \E force \in BOOLEAN, include_preferences \in BOOLEAN, dry_run \in BOOLEAN :
          MergeRun(force, include_preferences, dry_run)
\* one of the four options is given
RunRename ==
    /\ cmd.op = "none"
    /\ \E o \in {"context", "cluster", "user", "all"}, t \in RenameTokens,
          dry_run \in BOOLEAN, force \in BOOLEAN :
          RenameRun(IF o = "context" THEN Some(t) ELSE None,
                    IF o = "cluster" THEN Some(t) ELSE None,
                    IF o = "user" THEN Some(t) ELSE None,
                    IF o = "all" THEN Some(t) ELSE None, dry_run, force)
RunDelete ==
    /\ cmd.op = "none"
    /\ \E context \in DeleteNames, dry_run \in BOOLEAN, yes \in BOOLEAN,
          read \in ReadResults :
          DeleteRun(context, dry_run, yes, read)

NextRun == RunMerge \/ RunRename \/ RunDelete

SpecRun == InitRun /\ [][NextRun]_vars

(***************************************************************************)
(* serde_yaml::to_string(&kubeconfig) (write_kubeconfig, main.rs 608), by  *)
(* the Serialize derives of kubeconfig.rs 9-210.  The text is a tree: a    *)
(* scalar, a null, a sequence of nodes or a mapping of keys to nodes.      *)
(***************************************************************************)
YamlScalar(v) == [node |-> "scalar", scalar |-> <<v>>, items |-> << >>]
YamlNull == [node |-> "null", scalar |-> << >>, items |-> << >>]
YamlSeq(items) == [node |-> "seq", scalar |-> << >>, items |-> items]
YamlMap(items) == [node |-> "map", scalar |-> << >>, items |-> items]
YamlKey(key, value) == <<[key |-> key, value |-> value]>>
\* a field under skip_serializing_if = "Option::is_none"
SkipNone(key, option, node) ==
    IF IsSome(option) THEN YamlKey(key, node) ELSE << >>
\* a field under skip_serializing_if = "Vec::is_empty"
SkipEmpty(key, vec, node) == IF Len(vec) = 0 THEN << >> ELSE YamlKey(key, node)

\* NamedExtension (203-210)
ser_extensions(v) ==
    YamlSeq([i \in 1..Len(v) |->
        YamlMap(YamlKey("name", YamlScalar(v[i].name))
                \o YamlKey("extension", YamlScalar(v[i].extension)))])
\* Preferences (35-43)
ser_preferences(p) ==
    YamlMap(SkipNone("colors", p.colors,
                     IF IsSome(p.colors) THEN YamlScalar(Unwrap(p.colors))
                     ELSE YamlNull)
            \o SkipEmpty("extensions", p.extensions,
                         ser_extensions(p.extensions)))
\* Cluster (52-77)
ser_cluster(c) ==
    YamlMap(YamlKey("server", YamlScalar(c.server))
            \o SkipNone("certificate-authority-data",
                        c.certificate_authority_data,
                        YamlScalar(c.certificate_authority_data)))
\* AuthProvider (135-143): config has no skip_serializing_if
ser_auth_provider(a) ==
    YamlMap(YamlKey("name", YamlScalar(a.name))
            \o YamlKey("config",
                       YamlMap([i \in 1..Len(a.config) |->
                           [key |-> a.config[i][1],
                            value |-> YamlScalar(a.config[i][2])]])))
\* an Option without skip_serializing_if: None is written as null
ser_option(option, node) == IF IsSome(option) THEN node ELSE YamlNull
\* ExecConfig (145-166): args and env have no skip_serializing_if
ser_exec(e) ==
    YamlMap(YamlKey("command", YamlScalar(e.command))
            \o YamlKey("args",
                   ser_option(e.args,
                       YamlSeq([i \in 1..Len(Unwrap(e.args)) |->
                                   YamlScalar(Unwrap(e.args)[i])])))
            \o YamlKey("env",
                   ser_option(e.env,
                       YamlSeq([i \in 1..Len(Unwrap(e.env)) |->
                           YamlMap(YamlKey("name",
                                           YamlScalar(Unwrap(e.env)[i][1]))
                                   \o YamlKey("value",
                                           YamlScalar(Unwrap(e.env)[i][2])))]))))
\* User (86-133)
ser_user(u) ==
    YamlMap(SkipNone("client-certificate-data", u.client_certificate_data,
                     YamlScalar(u.client_certificate_data))
            \o SkipNone("client-key-data", u.client_key_data,
                        YamlScalar(u.client_key_data))
            \o SkipNone("token", u.token, YamlScalar(u.token))
            \o SkipNone("auth-provider", u.auth_provider,
                        IF IsSome(u.auth_provider)
                        THEN ser_auth_provider(Unwrap(u.auth_provider))
                        ELSE YamlNull)
            \o SkipNone("exec", u.exec,
                        IF IsSome(u.exec) THEN ser_exec(Unwrap(u.exec))
                        ELSE YamlNull))
\* Context (190-201)
ser_context(c) ==
    YamlMap(YamlKey("cluster", YamlScalar(c.cluster))
            \o YamlKey("user", YamlScalar(c.user))
            \o SkipNone("namespace", c.namespace, YamlScalar(c.namespace)))
\* KubeConfig (9-33): clusters, users and contexts have no
\* skip_serializing_if
to_string(k) ==
    YamlMap(YamlKey("apiVersion", YamlScalar(k.api_version))
            \o YamlKey("kind", YamlScalar(k.kind))
            \o SkipNone("preferences", k.preferences,
                        IF IsSome(k.preferences)
                        THEN ser_preferences(Unwrap(k.preferences))
                        ELSE YamlNull)
            \o YamlKey("clusters",
                   YamlSeq([i \in 1..Len(k.clusters) |->
                       YamlMap(YamlKey("name", YamlScalar(k.clusters[i].name))
                               \o YamlKey("cluster",
                                      ser_cluster(k.clusters[i].cluster)))]))
            \o YamlKey("users",
                   YamlSeq([i \in 1..Len(k.users) |->
                       YamlMap(YamlKey("name", YamlScalar(k.users[i].name))
                               \o YamlKey("user", ser_user(k.users[i].user)))]))
            \o YamlKey("contexts",
                   YamlSeq([i \in 1..Len(k.contexts) |->
                       YamlMap(YamlKey("name", YamlScalar(k.contexts[i].name))
                               \o YamlKey("context",
                                      ser_context(k.contexts[i].context)))]))
            \o SkipNone("current-context", k.current_context,
                        YamlScalar(k.current_context))
            \o SkipEmpty("extensions", k.extensions,
                         ser_extensions(k.extensions)))

(***************************************************************************)
(* The documents that are written out: users carry an auth provider and an *)
(* exec plugin; lists of arguments, environment variables and config       *)
(* entries have at most MaxArgs elements.                                  *)
(***************************************************************************)
MaxArgs == 1

AuthProvider(name, config) == [name |-> name, config |-> config]
ExecConfig(command, args, env) ==
    [command |-> command, args |-> args, env |-> env]
UserWith(token, auth_provider, exec) ==
    [client_certificate_data |-> None, client_key_data |-> None,
     token |-> token, auth_provider |-> auth_provider, exec |-> exec]

ArgsChoices == {None} \cup {Some(a) : a \in SeqsUpTo({"x"}, MaxArgs)}
EnvChoices == {None} \cup {Some(a) : a \in SeqsUpTo({<<"k", "v">>}, MaxArgs)}
ExecChoices ==
    {None} \cup {Some(ExecConfig("c", a, e)) : a \in ArgsChoices, e \in EnvChoices}
AuthProviderChoices ==
    {None} \cup {Some(AuthProvider("p", c)) : c \in SeqsUpTo({<<"k", "v">>}, MaxArgs)}
SerializeUsers ==
    {<< >>} \cup
    {<<NamedUser(Name_a, UserWith(Some(<<"t">>), a, e))>> :
        a \in AuthProviderChoices, e \in ExecChoices}
SerializePreferences ==
    {None, Some(Preferences(None, << >>)), Some(Preferences(Some(TRUE), << >>)),
     Some(Preferences(None, ExtensionsOf(<<Name_a>>, "m")))}

InitSerialize ==
    /\ \E p \in SerializePreferences, us \in SerializeUsers,
          cl \in {<< >>, <<Name_a>>}, ex \in {<< >>, <<Name_a>>},
          withContext \in BOOLEAN :
       \E cx \in IF withContext /\ Len(cl) > 0 /\ Len(us) > 0
                 THEN {<<<<Name_a, Name_a>>>>} ELSE {<< >>} :
       \E cur \in CurrentChoices(cx, 1) :
          stored = KubeConfig(Str_v1, Str_Config, p, ClustersOf(cl, "m"), us,
                              ContextsOf(cx, "m"), cur, ExtensionsOf(ex, "m"))
    /\ other = EmptyDocument
    /\ before = stored
    /\ cmd = [op |-> "none"]
    /\ loaded = NotLoaded
    /\ ret = NoRet
    /\ out = NoOut
    /\ status = "none"

\* one invocation that writes or prints the document: a delete that is not
\* asked about
NextSerialize ==
    /\ cmd.op = "none"
    /\ \E context \in {Name_a, Name_c1}, dry_run \in BOOLEAN :
          DeleteRun(context, dry_run, TRUE, ReadOk(<< >>))

SpecSerialize == InitSerialize /\ [][NextSerialize]_vars

(***************************************************************************)
(* Runs of merge and rename one after the other on the same file, each     *)
(* loading what the one before wrote.  The file starts as a valid document *)
(* of at most MaxSessionEntries entries; merge reads one of SessionOthers. *)
(***************************************************************************)
MaxSessionEntries == 3

SessionShapes ==
    {u \in (0..MaxSessionEntries) \X (0..MaxSessionEntries)
              \X (0..MaxSessionEntries) :
        u[1] + u[2] + u[3] <= MaxSessionEntries}

\* valid documents: one whose context needs a cluster and a user the file
\* may lack, one that repeats a name and refers to main's names
SessionOthers ==
    {KubeConfig(Str_v1, Str_Config, None,
                ClustersOf(<<Name_c1>>, "o"), UsersOf(<<Name_c1>>, "o"),
                ContextsOf(<<<<Name_a, Name_c1>>>>, "o"), Some(Name_a), << >>),
     KubeConfig(Str_v1, Str_Config, None,
                ClustersOf(<<Name_a, Name_b0, Name_a>>, "o"),
                UsersOf(<<Name_b0, Name_b0>>, "o"),
                ContextsOf3(<<<<Name_b0, Name_b0, Name_b0>>,
                              <<Name_b0, Name_a, Name_b0>>>>, "o"),
                None, << >>)}
SessionTokens == {Name_a \o Sep \o Name_b0, Name_b0 \o Sep \o Name_c1}

InitSession == RenameInit(SessionShapes)

\* a forced rename followed by a merge adds an entry, again and again: runs
\* start while the file has at most MaxSessionEntries entries
Entries(D) == Len(D.clusters) + Len(D.users) + Len(D.contexts)

SessionMerge ==
    /\ Entries(stored) <= MaxSessionEntries
    /\ \E o \in SessionOthers, force \in BOOLEAN :
          MergeRunOn(o, force, FALSE, FALSE)
SessionRename ==
    /\ Entries(stored) <= MaxSessionEntries
    /\ \E o \in {"context", "cluster", "user", "all"}, t \in SessionTokens,
          force \in BOOLEAN :
          RenameRun(IF o = "context" THEN Some(t) ELSE None,
                    IF o = "cluster" THEN Some(t) ELSE None,
                    IF o = "user" THEN Some(t) ELSE None,
                    IF o = "all" THEN Some(t) ELSE None, FALSE, force)

NextSession == SessionMerge \/ SessionRename

SpecSession == InitSession /\ [][NextSession]_vars

(***************************************************************************)
(* Runs of merge, rename without --force and delete one after the other on *)
(* a file whose names are pairwise distinct at the start.                  *)
(***************************************************************************)
distinct_names(v) ==
    \A i \in 1..Len(v), j \in 1..Len(v) : v[i].name = v[j].name => i = j

\* documents for merge with names that repeat, in every collection
UniqueOthers ==
    {KubeConfig(Str_v1, Str_Config, None,
                ClustersOf(<<Name_c1, Name_a, Name_c1>>, "o"),
                UsersOf(<<Name_c1, Name_c1>>, "o"),
                ContextsOf(<<<<Name_a, Name_c1>>, <<Name_a, Name_c1>>>>, "o"),
                Some(Name_a), ExtensionsOf(<<Name_a, Name_a>>, "o")),
     KubeConfig(Str_v1, Str_Config, None,
                ClustersOf(<<Name_b0>>, "o"), UsersOf(<<Name_b0>>, "o"),
                ContextsOf(<<<<Name_b0, Name_b0>>>>, "o"), None, << >>)}

InitUnique ==
    /\ RenameInit(SessionShapes)
    /\ distinct_names(stored.clusters)
    /\ distinct_names(stored.users)
    /\ distinct_names(stored.contexts)

UniqueMerge ==
    /\ Entries(stored) <= MaxSessionEntries
    /\ \E o \in UniqueOthers, force \in BOOLEAN :
          MergeRunOn(o, force, FALSE, FALSE)
UniqueRename ==
    /\ Entries(stored) <= MaxSessionEntries
    /\ \E o \in {"context", "cluster", "user", "all"}, t \in SessionTokens :
          RenameRun(IF o = "context" THEN Some(t) ELSE None,
                    IF o = "cluster" THEN Some(t) ELSE None,
                    IF o = "user" THEN Some(t) ELSE None,
                    IF o = "all" THEN Some(t) ELSE None, FALSE, FALSE)
UniqueDelete ==
    /\ Entries(stored) <= MaxSessionEntries + 1
    /\ \E context \in DeleteNames :
          DeleteRun(context, FALSE, TRUE, ReadOk(<< >>))

NextUnique == UniqueMerge \/ UniqueRename \/ UniqueDelete

SpecUnique == InitUnique /\ [][NextUnique]_vars

InitValidate ==
    /\ \E t \in ValidateShapes :
       \E api \in {Str_v1, Str_v2}, kind \in {Str_Config, Str_List},
          cur \in {None} \cup {Some(n) : n \in Names},
          cl \in [1..t[1] -> ValidateClusterEntries],
          us \in [1..t[2] -> ValidateUserEntries],
          cx \in [1..t[3] -> ValidateContextEntries] :
          stored = KubeConfig(api, kind, None, cl, us, cx, cur, << >>)
    /\ before = stored
    /\ other = EmptyDocument
    /\ cmd = [op |-> "none"]
    /\ loaded = NotLoaded
    /\ ret = NoRet
    /\ out = NoOut
    /\ status = "none"

NextValidate == cmd.op = "none" /\ ListRun(FALSE)

SpecValidate == InitValidate /\ [][NextValidate]_vars


(***************************************************************************)
(* The invariants of a document, stated one by one                         *)
(***************************************************************************)
InvApiVersion(D) == D.api_version = Str_v1
InvKind(D) == D.kind = Str_Config
InvCurrentContext(D) ==
    D.current_context = None
    \/ \E i \in 1..Len(D.contexts) :
           D.contexts[i].name = Unwrap(D.current_context)
InvContextRefs(D) ==
    \A i \in 1..Len(D.contexts) :
        /\ \E j \in 1..Len(D.clusters) :
               D.clusters[j].name = D.contexts[i].context.cluster
        /\ \E j \in 1..Len(D.users) :
               D.users[j].name = D.contexts[i].context.user
InvServers(D) ==
    \A i \in 1..Len(D.clusters) :
        \/ starts_with(D.clusters[i].cluster.server, Str_http)
        \/ starts_with(D.clusters[i].cluster.server, Str_https)
OptBase64(o) == o = None \/ B64DecodeOk(Unwrap(o))
InvBase64(D) ==
    /\ \A i \in 1..Len(D.clusters) :
           OptBase64(D.clusters[i].cluster.certificate_authority_data)
    /\ \A i \in 1..Len(D.users) :
           /\ OptBase64(D.users[i].user.client_certificate_data)
           /\ OptBase64(D.users[i].user.client_key_data)
AllInvariants(D) ==
    /\ InvApiVersion(D)
    /\ InvKind(D)
    /\ InvCurrentContext(D)
    /\ InvContextRefs(D)
    /\ InvServers(D)
    /\ InvBase64(D)

\* C1: validate returns Ok exactly when the document satisfies every
\* invariant (apiVersion, kind, currentContext, the contexts' references,
\* the servers' scheme, the base64 fields), and a ValidationError otherwise.
C1_ValidateIffInvariants ==
    cmd.op = "list" =>
        /\ (loaded.kind = "Ok") <=> AllInvariants(before)
        /\ (loaded.error = Ok) <=> AllInvariants(before)
        /\ ~AllInvariants(before) => loaded.error.kind = "ValidationError"
        /\ (status = "ok") <=> AllInvariants(before)

\* a valid document with a context was accepted, its references resolved
C1_Witness ==
    /\ cmd.op = "list"
    /\ loaded.kind = "Ok"
    /\ Len(before.contexts) > 0
    /\ IsSome(before.current_context)
    /\ IsSome(before.clusters[1].cluster.certificate_authority_data)

\* The checks of validate in their order, each with the error it reports
HeaderChecks(D) ==
    <<[violated |-> ~InvApiVersion(D),
       error |-> ValidationError("apiVersion", <<D.api_version>>)],
      [violated |-> ~InvKind(D),
       error |-> ValidationError("kind", <<D.kind>>)],
      [violated |-> ~InvCurrentContext(D),
       error |-> ValidationError("current-context", D.current_context)]>>
ContextChecks(D) ==
    [k \in 1..(2 * Len(D.contexts)) |->
        LET c == D.contexts[(k + 1) \div 2] IN
        IF k % 2 = 1
        THEN [violated |-> \A j \in 1..Len(D.clusters) :
                              D.clusters[j].name # c.context.cluster,
              error |-> ValidationError("context.cluster",
                                        <<c.name, c.context.cluster>>)]
        ELSE [violated |-> \A j \in 1..Len(D.users) :
                              D.users[j].name # c.context.user,
              error |-> ValidationError("context.user",
                                        <<c.name, c.context.user>>)]]
ClusterChecks(D) ==
    [k \in 1..(2 * Len(D.clusters)) |->
        LET c == D.clusters[(k + 1) \div 2] IN
        IF k % 2 = 1
        THEN [violated |-> /\ ~starts_with(c.cluster.server, Str_http)
                           /\ ~starts_with(c.cluster.server, Str_https),
              error |-> ValidationError("cluster.server",
                                        <<c.name, c.cluster.server>>)]
        ELSE [violated |-> ~OptBase64(c.cluster.certificate_authority_data),
              error |-> ValidationError("cluster.certificate-authority-data",
                                        <<c.name>>)]]
UserChecks(D) ==
    [k \in 1..(2 * Len(D.users)) |->
        LET u == D.users[(k + 1) \div 2] IN
        IF k % 2 = 1
        THEN [violated |-> ~OptBase64(u.user.client_certificate_data),
              error |-> ValidationError("user.client-certificate-data",
                                        <<u.name>>)]
        ELSE [violated |-> ~OptBase64(u.user.client_key_data),
              error |-> ValidationError("user.client-key-data",
                                        <<u.name>>)]]
ChecksInOrder(D) ==
    HeaderChecks(D) \o ContextChecks(D) \o ClusterChecks(D) \o UserChecks(D)
ViolatedChecks(D) ==
    LET cs == ChecksInOrder(D) IN {k \in 1..Len(cs) : cs[k].violated}
EarliestViolated(D) ==
    LET v == ViolatedChecks(D) IN CHOOSE k \in v : \A m \in v : k <= m

\* C2: validate reports the error of the earliest violated check in the
\* order apiVersion, kind, currentContext, per context (cluster reference,
\* user reference), per cluster (server, certificate-authority-data), per
\* user (client-certificate-data, client-key-data), and nothing else.
C2_FirstViolationReported ==
    cmd.op = "list" =>
        LET cs == ChecksInOrder(before)
            v == {k \in 1..Len(cs) : cs[k].violated}
        IN  v # {} =>
                loaded.error = cs[CHOOSE k \in v : \A m \in v : k <= m].error

\* a document violating checks of three different groups was rejected
C2_Witness ==
    /\ cmd.op = "list"
    /\ loaded.kind = "Err"
    /\ LET v == ViolatedChecks(before) IN
       /\ Cardinality(v) >= 3
       /\ \E k \in v : k > 3 + 2 * Len(before.contexts)
       /\ \E k \in v : k > 3 /\ k <= 3 + 2 * Len(before.contexts)
       /\ \A k \in v : k > 3


(***************************************************************************)
(* Merge                                                                   *)
(***************************************************************************)
MergeDone == cmd.op = "merge" /\ ret.kind = "Returned"
Merged == Unwrap(ret.config)

LastIndex(v, n) ==
    CHOOSE j \in 1..Len(v) :
        v[j].name = n /\ \A k \in (j + 1)..Len(v) : v[k].name # n

\* what became of the entries m had, when o was merged into m giving r
ExistingRule(m, o, r, force) ==
    /\ Len(r) >= Len(m)
    /\ \A i \in 1..Len(m) :
        /\ r[i].name = m[i].name
        /\ IF /\ force
              /\ \E j \in 1..Len(o) : o[j].name = m[i].name
              /\ \A k \in 1..(i - 1) : m[k].name # m[i].name
           THEN r[i] = o[LastIndex(o, m[i].name)]
           ELSE r[i] = m[i]

\* C3: in clusters, users, contexts and extensions, main's entries keep
\* their number, order and names; an entry whose name other holds too keeps
\* main's value without force and takes other's value (of the last entry of
\* that name in other, at the index of the first in main) with force.
C3_ExistingKeptOrReplaced ==
    MergeDone =>
        /\ ExistingRule(before.clusters, other.clusters, Merged.clusters,
                        cmd.force)
        /\ ExistingRule(before.users, other.users, Merged.users, cmd.force)
        /\ ExistingRule(before.contexts, other.contexts, Merged.contexts,
                        cmd.force)
        /\ ExistingRule(before.extensions, other.extensions,
                        Merged.extensions, cmd.force)

\* a forced merge replaced an entry of main and kept another one
C3_Witness ==
    /\ MergeDone
    /\ cmd.force
    /\ \E i, j \in 1..Len(before.clusters) :
           /\ Merged.clusters[i] # before.clusters[i]
           /\ Merged.clusters[i] \in {other.clusters[k] : k \in 1..Len(other.clusters)}
           /\ Merged.clusters[j] = before.clusters[j]
    /\ \E i \in 1..Len(before.extensions) :
           Merged.extensions[i] # before.extensions[i]

\* the indices of the entries of o that are the first of their name in o
\* and whose name m does not hold
FirstNewIndices(m, o) ==
    SelectSeq([j \in 1..Len(o) |-> j],
              LAMBDA j : /\ \A i \in 1..Len(m) : m[i].name # o[j].name
                         /\ \A k \in 1..(j - 1) : o[k].name # o[j].name)

AppendRule(m, o, r, force) ==
    LET idx == FirstNewIndices(m, o) IN
    /\ Len(r) = Len(m) + Len(idx)
    /\ \A t \in 1..Len(idx) :
           r[Len(m) + t] = IF force THEN o[LastIndex(o, o[idx[t]].name)]
                           ELSE o[idx[t]]

AllNewAppended(m, o, r) ==
    /\ Len(r) >= Len(m)
    /\ SubSeq(r, Len(m) + 1, Len(r)) =
           SelectSeq(o, LAMBDA e : \A i \in 1..Len(m) : m[i].name # e.name)

\* C4 as stated: every entry of other whose name main does not hold is
\* appended after main's entries, in other's order.
C4_EveryNewEntryAppended ==
    MergeDone =>
        /\ AllNewAppended(before.clusters, other.clusters, Merged.clusters)
        /\ AllNewAppended(before.users, other.users, Merged.users)
        /\ AllNewAppended(before.contexts, other.contexts, Merged.contexts)
        /\ AllNewAppended(before.extensions, other.extensions,
                          Merged.extensions)

\* C4 (amended): for every name that main does not hold, one entry is
\* appended after main's entries, in the order of the names' first
\* occurrence in other; it is the first entry of that name in other without
\* force and the last one with force.
C4_NewNamesAppendedOnce ==
    MergeDone =>
        /\ AppendRule(before.clusters, other.clusters, Merged.clusters,
                      cmd.force)
        /\ AppendRule(before.users, other.users, Merged.users, cmd.force)
        /\ AppendRule(before.contexts, other.contexts, Merged.contexts,
                      cmd.force)
        /\ AppendRule(before.extensions, other.extensions, Merged.extensions,
                      cmd.force)

\* other held two users of one name that main did not hold; one was appended
C4_Witness ==
    /\ MergeDone
    /\ Len(other.users) = 2
    /\ other.users[1].name = other.users[2].name
    /\ \A i \in 1..Len(before.users) :
           before.users[i].name # other.users[1].name
    /\ Len(before.users) > 0
    /\ Len(Merged.users) = Len(before.users) + 1
    /\ Merged.users[Len(Merged.users)] = other.users[2]

\* C5: merging an empty document (no entries; preferences absent or holding
\* neither colors nor extensions) returns main unchanged, for every force
\* and include_preferences.
C5_MergeIdentity ==
    (MergeDone /\ \E e \in 1..Len(EmptyDocuments) : other = EmptyDocuments[e])
        => Merged = before

\* C6: the merged document has main's current-context, apiVersion and kind.
C6_CurrentContextKept ==
    MergeDone =>
        /\ Merged.current_context = before.current_context
        /\ Merged.api_version = before.api_version
        /\ Merged.kind = before.kind

\* a forced merge where other's current-context is set and is not main's
C6_Witness ==
    /\ MergeDone
    /\ cmd.force
    /\ IsSome(other.current_context)
    /\ before.current_context # other.current_context
    /\ \E i \in 1..Len(Merged.contexts) :
           Merged.contexts[i].name = Unwrap(other.current_context)

\* C7: without include_preferences the preferences are main's.  With it and
\* both present: colors is main's unless force or main has none, and then
\* other's; the preferences' extensions follow the name-keyed rule.  With
\* it and only other's present, the preferences are other's.
C7_PreferencesMerge ==
    MergeDone =>
        LET mp == before.preferences
            op == other.preferences
            rp == Merged.preferences
        IN
        /\ ~cmd.include_preferences => rp = mp
        /\ (cmd.include_preferences /\ IsSome(mp) /\ IsSome(op)) =>
              /\ IsSome(rp)
              /\ (IsSome(Unwrap(mp).colors) /\ ~cmd.force) =>
                     Unwrap(rp).colors = Unwrap(mp).colors
              /\ (IsSome(Unwrap(mp).colors) /\ cmd.force) =>
                     Unwrap(rp).colors = Unwrap(op).colors
              /\ ~IsSome(Unwrap(mp).colors) =>
                     Unwrap(rp).colors = Unwrap(op).colors
              /\ ExistingRule(Unwrap(mp).extensions, Unwrap(op).extensions,
                              Unwrap(rp).extensions, cmd.force)
              /\ AppendRule(Unwrap(mp).extensions, Unwrap(op).extensions,
                            Unwrap(rp).extensions, cmd.force)
        /\ (cmd.include_preferences /\ ~IsSome(mp) /\ IsSome(op)) => rp = op

\* preferences were merged with force: colors from other, an extension
\* replaced and one appended
C7_Witness ==
    /\ MergeDone
    /\ cmd.include_preferences /\ cmd.force
    /\ IsSome(before.preferences) /\ IsSome(other.preferences)
    /\ IsSome(Unwrap(before.preferences).colors)
    /\ IsSome(Unwrap(other.preferences).colors)
    /\ Unwrap(Merged.preferences).colors # Unwrap(before.preferences).colors
    /\ Len(Unwrap(before.preferences).extensions) > 0
    /\ Len(Unwrap(Merged.preferences).extensions)
          > Len(Unwrap(before.preferences).extensions)
    /\ Unwrap(Merged.preferences).extensions[1]
          # Unwrap(before.preferences).extensions[1]


(***************************************************************************)
(* Rename                                                                  *)
(***************************************************************************)
RenameRan == cmd.op = "rename" /\ loaded.kind = "Ok"
RenameDone == cmd.op = "rename" /\ ret.kind = "Returned"
Renamed == Unwrap(ret.config)
Kinds == {"context", "cluster", "user"}
\* the token the stage of kind K works on, if any
Token(K) ==
    IF IsSome(cmd.all) THEN cmd.all
    ELSE IF K = "context" THEN cmd.context
    ELSE IF K = "cluster" THEN cmd.cluster
    ELSE cmd.user
WellFormed(K) == IsSome(Token(K)) /\ Len(split(Unwrap(Token(K)))) = 2
PreviousName(K) == split(Unwrap(Token(K)))[1]
NewName(K) == split(Unwrap(Token(K)))[2]
EntriesOf(D, K) ==
    IF K = "context" THEN D.contexts
    ELSE IF K = "cluster" THEN D.clusters
    ELSE D.users
Named(v, n) == {i \in 1..Len(v) : v[i].name = n}

\* C8: after a successful rename every entry of the kind that was named
\* previousName is named newName and none is named previousName; so is
\* current-context (context), every context's cluster (cluster) and every
\* context's user (user).
C8_RenameCascade ==
    RenameDone =>
        \A K \in Kinds :
            IsSome(Token(K)) =>
                LET p == PreviousName(K)
                    n == NewName(K)
                    old == EntriesOf(before, K)
                    new == EntriesOf(Renamed, K)
                IN
                /\ Len(new) = Len(old)
                /\ \A i \in Named(old, p) : new[i].name = n
                /\ p # n => Named(new, p) = {}
                /\ K = "context" =>
                      /\ before.current_context = Some(p) =>
                             Renamed.current_context = Some(n)
                      /\ p # n => Renamed.current_context # Some(p)
                /\ K = "cluster" =>
                      \A i \in 1..Len(before.contexts) :
                          /\ before.contexts[i].context.cluster = p =>
                                 Renamed.contexts[i].context.cluster = n
                          /\ p # n => Renamed.contexts[i].context.cluster # p
                /\ K = "user" =>
                      \A i \in 1..Len(before.contexts) :
                          /\ before.contexts[i].context.user = p =>
                                 Renamed.contexts[i].context.user = n
                          /\ p # n => Renamed.contexts[i].context.user # p

\* a cluster that a context referenced was renamed, current-context set
C8_Witness ==
    /\ RenameDone
    /\ IsSome(cmd.cluster)
    /\ IsSome(before.current_context)
    /\ Named(before.clusters, PreviousName("cluster")) # {}
    /\ \E i \in 1..Len(before.contexts) :
           /\ before.contexts[i].context.cluster = PreviousName("cluster")
           /\ Renamed.contexts[i].context.cluster = NewName("cluster")
    /\ Named(Renamed.clusters, NewName("cluster")) # {}
    /\ stored = Renamed

AllTokensAccepted ==
    \A K \in Kinds :
        IsSome(Token(K)) => WellFormed(K) /\ regex_is_match(NewName(K))

\* C9: without force, a rename whose newName names an entry of the kind
\* panics, whatever stage it is, and nothing is stored or printed; with
\* force it goes through, and where an entry named previousName (not
\* newName) existed too, at least two entries are named newName.
C9_RenameConflict ==
    RenameRan =>
        /\ ( /\ ~cmd.force
             /\ \E K \in Kinds :
                    WellFormed(K) /\ Named(EntriesOf(before, K), NewName(K)) # {} )
           => /\ ret.kind = "Panicked"
              /\ AllTokensAccepted => ret.reason = "refusing to rename"
              /\ status = "panic"
              /\ stored = before
              /\ out = NoOut
        /\ (cmd.force /\ AllTokensAccepted)
           => /\ ret.kind = "Returned"
              /\ \A K \in Kinds :
                    ( /\ IsSome(Token(K))
                      /\ PreviousName(K) # NewName(K)
                      /\ Named(EntriesOf(before, K), PreviousName(K)) # {}
                      /\ Named(EntriesOf(before, K), NewName(K)) # {} )
                    => Cardinality(Named(EntriesOf(Renamed, K), NewName(K))) >= 2

\* the alias was given without force: the context stage had a context to
\* rename and no conflict, the cluster stage met a cluster named newName
C9_Witness ==
    /\ RenameRan
    /\ ~cmd.force /\ ~cmd.dry_run
    /\ IsSome(cmd.all)
    /\ WellFormed("context")
    /\ Named(before.contexts, PreviousName("context")) # {}
    /\ Named(before.contexts, NewName("context")) = {}
    /\ Named(before.clusters, NewName("cluster")) # {}
    /\ ret = Panicked("refusing to rename")
    /\ stored = before

\* the longest name the panic message of the name check allows
MessageMaxLen == 253

\* the names the message of the name check describes: lowercase letters,
\* digits, '-' and '.', the first and the last a letter or digit, at most
\* 253 characters
DescribedName(s) ==
    /\ Len(s) >= 1
    /\ Len(s) <= MessageMaxLen
    /\ \A i \in 1..Len(s) : s[i] \in LowerAlnum \cup {"-", "."}
    /\ s[1] \in LowerAlnum
    /\ s[Len(s)] \in LowerAlnum

\* C10: the name check of a stage passes exactly the described names: a
\* described name never ends the invocation as an invalid name, any other
\* name does.
C10_NameCheck ==
    RenameRan =>
        \A K \in Kinds :
            ( /\ WellFormed(K)
              /\ \A J \in Kinds : J # K => (~IsSome(Token(J)) \/ IsSome(cmd.all)) )
            => LET first == IF IsSome(cmd.all) THEN "context" ELSE K IN
               K = first =>
                   (DescribedName(NewName(K)) <=> ret.reason # "invalid name")


\* C11: with --all = "p::n" the invocation ends as the context rename p->n,
\* then the cluster rename p->n on its result, then the user rename p->n on
\* that result do, each with its own checks; whatever --context, --cluster
\* and --user hold makes no difference.
C11_AllIsThreeRenames ==
    (RenameRan /\ IsSome(cmd.all)) =>
        /\ ret = user_stage(
                     cluster_stage(
                         context_stage(Returned(before), cmd.all, cmd.force),
                         cmd.all, cmd.force),
                     cmd.all, cmd.force)
        /\ ret.kind = "Returned" =>
               Renamed = rename_user(
                             rename_cluster(
                                 rename_context(before, PreviousName("context"),
                                                NewName("context")),
                                 PreviousName("cluster"), NewName("cluster")),
                             PreviousName("user"), NewName("user"))

\* --all renamed a context, a cluster and a user while --cluster held
\* another token that would have renamed a cluster too
C11_Witness ==
    /\ RenameDone
    /\ IsSome(cmd.all) /\ IsSome(cmd.cluster) /\ cmd.cluster # cmd.all
    /\ Len(split(Unwrap(cmd.cluster))) = 2
    /\ Named(before.clusters, split(Unwrap(cmd.cluster))[1]) # {}
    /\ Named(before.contexts, PreviousName("context")) # {}
    /\ Named(before.clusters, PreviousName("cluster")) # {}
    /\ Named(before.users, PreviousName("user")) # {}
    /\ Named(Renamed.contexts, NewName("context")) # {}
    /\ Named(Renamed.clusters, NewName("cluster")) # {}
    /\ Named(Renamed.users, NewName("user")) # {}


(***************************************************************************)
(* Delete                                                                  *)
(***************************************************************************)
DeleteRan == cmd.op = "delete" /\ loaded.kind = "Ok"
DeleteDone == cmd.op = "delete" /\ ret.kind = "Returned"
Deleted == Unwrap(ret.config)
RemovedContexts == Named(before.contexts, cmd.context)
RemovedClusterNames ==
    {before.contexts[i].context.cluster : i \in RemovedContexts}
RemovedUserNames == {before.contexts[i].context.user : i \in RemovedContexts}
\* new holds the entries of old at the indices in keep, in old's order
KeptAt(new, old, keep) ==
    /\ Len(new) = Cardinality(keep)
    /\ \A i \in keep : new[Cardinality({j \in keep : j < i}) + 1] = old[i]

\* C12: the document delete returns has no context of the given name, its
\* current-context is absent if it was that name and unchanged otherwise, it
\* has no cluster and no user named by a removed context, and what remains
\* is what the document had, in the same order; nothing else differs.
C12_DeleteResult ==
    DeleteDone =>
        /\ Named(Deleted.contexts, cmd.context) = {}
        /\ Deleted.current_context =
              IF before.current_context = Some(cmd.context) THEN None
              ELSE before.current_context
        /\ \A i \in 1..Len(Deleted.clusters) :
              Deleted.clusters[i].name \notin RemovedClusterNames
        /\ \A i \in 1..Len(Deleted.users) :
              Deleted.users[i].name \notin RemovedUserNames
        /\ KeptAt(Deleted.contexts, before.contexts,
                  (1..Len(before.contexts)) \ RemovedContexts)
        /\ KeptAt(Deleted.clusters, before.clusters,
                  {i \in 1..Len(before.clusters) :
                      before.clusters[i].name \notin RemovedClusterNames})
        /\ KeptAt(Deleted.users, before.users,
                  {i \in 1..Len(before.users) :
                      before.users[i].name \notin RemovedUserNames})
        /\ Deleted = [before EXCEPT !.contexts = Deleted.contexts,
                                    !.clusters = Deleted.clusters,
                                    !.users = Deleted.users,
                                    !.current_context = Deleted.current_context]

\* the current context was deleted with its cluster and user, another
\* context and another cluster stay, and the result was written
C12_Witness ==
    /\ DeleteDone
    /\ ~cmd.dry_run
    /\ before.current_context = Some(cmd.context)
    /\ RemovedContexts # {}
    /\ Len(Deleted.contexts) > 0
    /\ Len(Deleted.clusters) > 0 /\ Len(Deleted.clusters) < Len(before.clusters)
    /\ Len(Deleted.users) < Len(before.users)
    /\ Deleted.current_context = None
    /\ stored = Deleted


\* the contexts that stay and refer to a cluster, or a user, of a removed one
SharingCluster ==
    {i \in (1..Len(before.contexts)) \ RemovedContexts :
        before.contexts[i].context.cluster \in RemovedClusterNames}
SharingUser ==
    {i \in (1..Len(before.contexts)) \ RemovedContexts :
        before.contexts[i].context.user \in RemovedUserNames}

\* C13: a cluster or user of a removed context goes even when a context
\* that stays refers to it: delete then returns, and without --dry-run
\* stores, a document with a context whose cluster or user names no entry,
\* which validate rejects although it accepted the document loaded.
C13_DeleteDangling ==
    (DeleteDone /\ SharingCluster \cup SharingUser # {}) =>
        /\ \A i \in SharingCluster :
              /\ Named(Deleted.clusters, before.contexts[i].context.cluster) = {}
              /\ \E j \in 1..Len(Deleted.contexts) :
                    Deleted.contexts[j] = before.contexts[i]
        /\ \A i \in SharingUser :
              /\ Named(Deleted.users, before.contexts[i].context.user) = {}
              /\ \E j \in 1..Len(Deleted.contexts) :
                    Deleted.contexts[j] = before.contexts[i]
        /\ validate(before) = Ok
        /\ validate(Deleted).kind = "ValidationError"
        /\ validate(Deleted).check \in {"context.cluster", "context.user"}
        /\ ~cmd.dry_run => stored = Deleted /\ from_file(stored).kind = "Err"

\* a stored document that validate accepted became one that it rejects
C13_Witness ==
    /\ DeleteDone
    /\ ~cmd.dry_run
    /\ SharingCluster # {}
    /\ validate(before) = Ok
    /\ stored = Deleted
    /\ validate(stored) # Ok


(***************************************************************************)
(* The invocation as a whole                                               *)
(***************************************************************************)
Ran == cmd.op \in {"merge", "rename", "delete"}
\* the reasons for which a run must not go through, told from its inputs
LoadFails ==
    \/ validate(before) # Ok
    \/ cmd.op = "merge" /\ validate(other) # Ok
RenameFails ==
    /\ cmd.op = "rename"
    /\ \E K \in Kinds :
          /\ IsSome(Token(K))
          /\ \/ ~WellFormed(K)
             \/ ~regex_is_match(NewName(K))
             \/ ~cmd.force /\ Named(EntriesOf(before, K), NewName(K)) # {}
Asked == cmd.op = "delete" /\ ~cmd.dry_run /\ ~cmd.yes
Declined ==
    /\ Asked
    /\ cmd.read.kind = "Ok"
    /\ cmd.read.line \notin {<<"y", "\n">>, <<" ", "Y", " ", "\n">>}
ReadFails == Asked /\ cmd.read.kind = "Err"
Fails == LoadFails \/ RenameFails \/ Declined \/ ReadFails

\* C14: the file changes only in a run that loaded and validated its
\* documents, completed its operation and had no --dry-run, and then to the
\* document the operation returned.  A run whose load fails, whose rename
\* token, new name or conflict check fails, or whose confirmation is declined
\* ends with a status other than ok (cancelled when declined), the file as it
\* was and no document printed; every other run succeeds.
C14_AllOrNothing ==
    Ran =>
        /\ stored # before =>
              /\ status = "ok"
              /\ ~cmd.dry_run
              /\ ~Fails
              /\ ret.kind = "Returned"
              /\ stored = Unwrap(ret.config)
        /\ Fails =>
              /\ status \in {"panic", "cancelled"}
              /\ stored = before
              /\ out.doc = None
        /\ (~LoadFails /\ Declined) => status = "cancelled"
        /\ ~Fails =>
              /\ status = "ok"
              /\ ret.kind = "Returned"
              /\ stored = IF cmd.dry_run THEN before ELSE Unwrap(ret.config)
              /\ out.doc = IF cmd.dry_run THEN ret.config ELSE None

\* the confirmation was declined when entries were about to go
C14_Witness ==
    /\ cmd.op = "delete"
    /\ Declined
    /\ status = "cancelled"
    /\ delete_entries(before, cmd.context) # before
    /\ stored = before
    /\ out.doc = None


\* what the operation of the same invocation gives when --dry-run is not set
WithoutDryRun ==
    IF cmd.op = "merge"
    THEN Returned(merge_kubeconfigs(before, other, cmd.force,
                                    cmd.include_preferences))
    ELSE IF cmd.op = "rename"
    THEN rename_kubeconfig_values(before, cmd.context, cmd.cluster, cmd.user,
                                  cmd.all, cmd.force)
    ELSE delete_context(before, cmd.context, cmd.yes, cmd.read)
\* the same, when the confirmation of a delete is given
WithoutDryRunConfirmed ==
    IF cmd.op = "delete"
    THEN delete_context(before, cmd.context, TRUE, cmd.read)
    ELSE WithoutDryRun

\* C15 as stated: a run with --dry-run leaves the file as it was and prints
\* the document that the same run without --dry-run writes.
C15_DryRunPrintsWhatIsWritten ==
    (Ran /\ cmd.dry_run) =>
        /\ stored = before
        /\ status = "ok" =>
              /\ WithoutDryRun.kind = "Returned"
              /\ out.doc = WithoutDryRun.config

\* C15: a run with --dry-run leaves the file as it was, asks for no
\* confirmation, and prints the document that the same run without
\* --dry-run writes when it writes one; a delete without --dry-run and
\* without --yes writes it only if the confirmation is given.
C15_DryRun ==
    (Ran /\ cmd.dry_run) =>
        /\ stored = before
        /\ status \in {"ok", "panic"}
        /\ status = "ok" =>
              /\ out.kind = "document"
              /\ WithoutDryRunConfirmed.kind = "Returned"
              /\ out.doc = WithoutDryRunConfirmed.config
              /\ WithoutDryRun.kind = "Returned" =>
                    out.doc = WithoutDryRun.config
        /\ status # "ok" => out.doc = None

\* delete --dry-run printed a document with fewer entries although the
\* answer on stdin declines
C15_Witness ==
    /\ cmd.op = "delete"
    /\ cmd.dry_run /\ ~cmd.yes
    /\ cmd.read = ReadOk(<<"n", "\n">>)
    /\ status = "ok"
    /\ stored = before
    /\ IsSome(out.doc)
    /\ Unwrap(out.doc) = delete_entries(before, cmd.context)
    /\ Unwrap(out.doc) # before
    /\ WithoutDryRun.kind = "Exited"


(***************************************************************************)
(* Serialization                                                           *)
(***************************************************************************)
\* the text of the document the invocation wrote or printed
Written == to_string(Unwrap(ret.config))
EmptyValue(n) ==
    \/ n.node = "null"
    \/ n.node \in {"seq", "map"} /\ Len(n.items) = 0
\* the keys of n, at any depth, whose value is null or empty
RECURSIVE EmptyKeys(_)
EmptyKeys(n) ==
    IF n.node = "map"
    THEN UNION {(IF EmptyValue(n.items[i].value) THEN {n.items[i].key} ELSE {})
                \cup EmptyKeys(n.items[i].value) : i \in 1..Len(n.items)}
    ELSE IF n.node = "seq"
    THEN UNION {EmptyKeys(n.items[i]) : i \in 1..Len(n.items)}
    ELSE {}

\* C16: the text written or printed has no key whose value is null, an
\* empty sequence or an empty mapping.
C16_NoEmptyKeys ==
    (cmd.op = "delete" /\ status = "ok") => EmptyKeys(Written) = {}


(***************************************************************************)
(* What rename leaves alone                                                *)
(***************************************************************************)
SameLengths ==
    /\ Len(Renamed.contexts) = Len(before.contexts)
    /\ Len(Renamed.clusters) = Len(before.clusters)
    /\ Len(Renamed.users) = Len(before.users)
\* a name is what it was, or was previousName and is newName
NamesOnlyRenamed(K) ==
    \A i \in 1..Len(EntriesOf(before, K)) :
        \/ EntriesOf(Renamed, K)[i].name = EntriesOf(before, K)[i].name
        \/ /\ IsSome(Token(K))
           /\ EntriesOf(before, K)[i].name = PreviousName(K)
           /\ EntriesOf(Renamed, K)[i].name = NewName(K)

\* C17: a successful rename keeps the length and order of every collection
\* and every payload; without a context rename current-context and the
\* contexts' names are unchanged, without a cluster rename the clusters and
\* the contexts' cluster fields, without a user rename the users and the
\* contexts' user fields; a name changes only from previousName to newName.
C17_RenameFrame ==
    RenameDone =>
        /\ SameLengths
        /\ Renamed.api_version = before.api_version
        /\ Renamed.kind = before.kind
        /\ Renamed.preferences = before.preferences
        /\ Renamed.extensions = before.extensions
        /\ \A i \in 1..Len(before.clusters) :
              Renamed.clusters[i].cluster = before.clusters[i].cluster
        /\ \A i \in 1..Len(before.users) :
              Renamed.users[i].user = before.users[i].user
        /\ \A i \in 1..Len(before.contexts) :
              Renamed.contexts[i].context.namespace =
                  before.contexts[i].context.namespace
        /\ \A K \in Kinds : NamesOnlyRenamed(K)
        /\ ~IsSome(Token("context")) =>
              /\ Renamed.current_context = before.current_context
              /\ \A i \in 1..Len(before.contexts) :
                    Renamed.contexts[i].name = before.contexts[i].name
        /\ ~IsSome(Token("cluster")) =>
              /\ Renamed.clusters = before.clusters
              /\ \A i \in 1..Len(before.contexts) :
                    Renamed.contexts[i].context.cluster =
                        before.contexts[i].context.cluster
        /\ ~IsSome(Token("user")) =>
              /\ Renamed.users = before.users
              /\ \A i \in 1..Len(before.contexts) :
                    Renamed.contexts[i].context.user =
                        before.contexts[i].context.user

\* a context was renamed whose cluster has the context's previous name: the
\* cluster and the reference to it keep that name
C17_Witness ==
    /\ RenameDone
    /\ IsSome(cmd.context)
    /\ \E i \in Named(before.contexts, PreviousName("context")) :
          /\ before.contexts[i].context.cluster = PreviousName("context")
          /\ Renamed.contexts[i].name = NewName("context")
          /\ Renamed.contexts[i].context.cluster = PreviousName("context")
    /\ Named(Renamed.clusters, PreviousName("context")) # {}
    /\ Renamed # before
    /\ stored = Renamed


AllDistinct(D) ==
    /\ distinct_names(D.clusters)
    /\ distinct_names(D.users)
    /\ distinct_names(D.contexts)
    /\ distinct_names(D.extensions)

\* C19: the names of the clusters, of the users, of the contexts and of the
\* extensions of the file, pairwise distinct at the start, are pairwise
\* distinct after every run of merge (any force, also with another document
\* that repeats names), of rename without force and of delete.
C19_NamesStayDistinct ==
    /\ AllDistinct(stored)
    /\ ret.kind = "Returned" => AllDistinct(Unwrap(ret.config))

\* a forced merge took entries from a document that repeats their names
C19_Witness ==
    /\ MergeDone
    /\ cmd.force
    /\ ~AllDistinct(other)
    /\ Len(Merged.clusters) > Len(before.clusters)
    /\ Len(Merged.extensions) > Len(before.extensions)
    /\ \E i \in 1..Len(before.contexts) : Merged.contexts[i] # before.contexts[i]
    /\ stored = Merged
    /\ AllDistinct(stored)


\* C20: when validate accepts the document and no context that stays refers
\* to the cluster or the user of a context that goes, validate accepts the
\* document delete returns; when no context has the given name, delete
\* returns the document unchanged.
C20_DeleteKeepsValid ==
    DeleteDone =>
        /\ (validate(before) = Ok /\ SharingCluster = {} /\ SharingUser = {})
              => validate(Deleted) = Ok
        /\ RemovedContexts = {} => Deleted = before

\* a context went with its cluster and user, a context that refers to
\* others stays, and the file written is accepted
C20_Witness ==
    /\ DeleteDone
    /\ ~cmd.dry_run
    /\ RemovedContexts # {}
    /\ SharingCluster = {} /\ SharingUser = {}
    /\ Len(Deleted.contexts) > 0
    /\ Len(Deleted.clusters) < Len(before.clusters)
    /\ Len(Deleted.users) < Len(before.users)
    /\ stored = Deleted
    /\ from_file(stored).kind = "Ok"


\* the colors value of a document's preferences, absent without preferences
ColorsOf(D) == IF IsSome(D.preferences) THEN Unwrap(D.preferences).colors ELSE None

\* C21: when the main document's preferences have a colors value, the
\* merged document's preferences have one too, whatever the other document,
\* force and include-preferences are.
C21_ColorsNeverLost ==
    (MergeDone /\ IsSome(ColorsOf(before))) => IsSome(ColorsOf(Merged))

=============================================================================
